---- MODULE Spec2Model ----
(***************************************************************************)
(* Model of scripts/check_description_files.py: the parser of extension    *)
(* description files (parse_s4ext), the precondition guard                 *)
(* (require_metadata_key), the three checks and the loop of main() that    *)
(* runs the configured checks on every file and exits with the failure     *)
(* count.                                                                  *)
(*                                                                         *)
(* A Python str is a sequence of one-character strings, so that split,     *)
(* strip, urlsplit and the message formatting are computed character by    *)
(* character.  None is the one-element sequence None below, which is no    *)
(* sequence of characters.                                                 *)
(***************************************************************************)
EXTENDS Integers, Sequences, FiniteSets, TLC

\* ------------------------------------------------------------------ bounds
\* Largest number of paths on the command line (Spec).
MaxFiles == 3
\* Largest number of lines of one description file.
MaxLines == 2
\* Number of paths on the command line of the large batch (SpecBatch).
BatchFiles == 128

\* --------------------------------------------------------- program constants
\* sys.exit(n) hands n to exit(3); the parent receives n modulo 256.
ExitStatusModulus == 256
\* Exit status of the interpreter after an uncaught exception.
UncaughtExceptionStatus == 1

\* ------------------------------------------------------------ str helpers
None == <<"None">>

\* The whitespace characters a line of a text file can hold.
Whitespace == {" ", "\t", "\n", "\r"}

Lowercase == <<"a", "b", "c", "d", "e", "f", "g", "h", "i", "j", "k", "l", "m", "n", "o", "p", "q", "r", "s", "t", "u", "v", "w", "x", "y", "z">>

Uppercase == <<"A", "B", "C", "D", "E", "F", "G", "H", "I", "J", "K", "L", "M", "N", "O", "P", "Q", "R", "S", "T", "U", "V", "W", "X", "Y", "Z">>

Digits == <<"0", "1", "2", "3", "4", "5", "6", "7", "8", "9">>

Range(s) == {s[i] : i \in 1..Len(s)}

SetMin(S) == CHOOSE x \in S : \A y \in S : x <= y

SetMax(S) == CHOOSE x \in S : \A y \in S : x >= y

\* str.isalpha for one ASCII character
isalpha(c) == c \in Range(Lowercase) \cup Range(Uppercase)

\* str.lower for one ASCII character
lower(c) == IF c \in Range(Uppercase) THEN Lowercase[CHOOSE i \in 1..26 : Uppercase[i] = c] ELSE c

\* s[i:] with a 1-based i
From(s, i) == SubSeq(s, i, Len(s))

\* s.find(sub) + 1: the 1-based index of the first occurrence, 0 when there is none
find(s, sub) == LET idx == {i \in 1..(Len(s) - Len(sub) + 1) : SubSeq(s, i, i + Len(sub) - 1) = sub} IN IF idx = {} THEN 0 ELSE SetMin(idx)

\* s.rfind(sub) + 1
rfind(s, sub) == LET idx == {i \in 1..(Len(s) - Len(sub) + 1) : SubSeq(s, i, i + Len(sub) - 1) = sub} IN IF idx = {} THEN 0 ELSE SetMax(idx)

\* sub in s
contains(s, sub) == find(s, sub) # 0

\* s.startswith(prefix)
startswith(s, prefix) == Len(prefix) <= Len(s) /\ SubSeq(s, 1, Len(prefix)) = prefix

RECURSIVE lstrip(_)
lstrip(s) == IF s # <<>> /\ Head(s) \in Whitespace THEN lstrip(Tail(s)) ELSE s

RECURSIVE rstrip(_)
rstrip(s) == IF s # <<>> /\ s[Len(s)] \in Whitespace THEN rstrip(SubSeq(s, 1, Len(s) - 1)) ELSE s

\* s.strip()
strip(s) == rstrip(lstrip(s))

\* s.split(' ', 1)
split_space_1(s) == LET i == find(s, <<" ">>) IN IF i = 0 THEN <<s>> ELSE <<SubSeq(s, 1, i - 1), From(s, i + 1)>>

\* ", ".join(repr(x) for x in xs), each x a str without quote characters
RECURSIVE join_reprs(_)
join_reprs(xs) == IF xs = <<>> THEN <<>> ELSE <<"'">> \o Head(xs) \o <<"'">> \o (IF Tail(xs) = <<>> THEN <<>> ELSE <<",", " ">> \o join_reprs(Tail(xs)))

\* "%s" % a list of str
repr_list(xs) == <<"[">> \o join_reprs(xs) \o <<"]">>

\* ------------------------------------------------------- urllib / os.path
scheme_chars == Range(Lowercase) \cup Range(Uppercase) \cup Range(Digits) \cup {"+", "-", "."}

\* urllib.parse.urlsplit(url) for a str url: the scheme and path components.
\* The url is a stripped field of a line, so it has no leading or trailing
\* whitespace for urlsplit to remove.
urlsplit(url) ==
    LET i == find(url, <<":">>)
        hasScheme == i > 1 /\ isalpha(url[1]) /\ \A j \in 1..(i - 1) : url[j] \in scheme_chars
        scheme == IF hasScheme THEN [j \in 1..(i - 1) |-> lower(url[j])] ELSE <<>>
        rest == IF hasScheme THEN From(url, i + 1) ELSE url
        hasNetloc == startswith(rest, <<"/", "/">>)
        after == From(rest, 3)
        delims == {j \in 1..Len(after) : after[j] \in {"/", "?", "#"}}
        rest2 == IF ~hasNetloc THEN rest ELSE IF delims = {} THEN <<>> ELSE From(after, SetMin(delims))
        f == find(rest2, <<"#">>)
        rest3 == IF f = 0 THEN rest2 ELSE SubSeq(rest2, 1, f - 1)
        q == find(rest3, <<"?">>)
        path == IF q = 0 THEN rest3 ELSE SubSeq(rest3, 1, q - 1)
    IN  [scheme |-> scheme, path |-> path]

\* os.path.splitext(p)[0]
splitext_root(p) ==
    LET sep == rfind(p, <<"/">>)
        dot == rfind(p, <<".">>)
    IN  IF dot > sep /\ \E j \in (sep + 1)..(dot - 1) : p[j] # "." THEN SubSeq(p, 1, dot - 1) ELSE p

\* path.split("/")[-1]
last_segment(path) == From(path, rfind(path, <<"/">>) + 1)

\* --------------------------------------------------------------- metadata
\* A dict is the set of its items; a key occurs in at most one item.
HasKey(metadata, k) == \E e \in metadata : e.key = k

Get(metadata, k) == (CHOOSE e \in metadata : e.key = k).value

Put(metadata, k, v) == {e \in metadata : e.key # k} \cup {[key |-> k, value |-> v]}

K_scm == <<"s", "c", "m">>

K_scmurl == <<"s", "c", "m", "u", "r", "l">>

\* ------------------------------------------------- files the run can meet
Lines == {
    <<"s", "c", "m", " ", "g", "i", "t", "\n">>,
    <<"s", "c", "m", " ", "s", "v", "n", "\n">>,
    <<"s", "c", "m", " ", "l", "o", "c", "a", "l", "\n">>,
    <<"s", "c", "m", "\n">>,
    <<"s", "c", "m", " ", "\n">>,
    <<"s", "c", "m", "u", "r", "l", " ", "h", "t", "t", "p", "s", ":", "/", "/", "e", "x", "a", "m", "p", "l", "e", ".", "o", "r", "g", "/", "R", "e", "p", "o", "\n">>,
    <<"s", "c", "m", "u", "r", "l", " ", "f", "t", "p", ":", "/", "/", "x", "/", "y", "\n">>,
    <<"s", "c", "m", "u", "r", "l", " ", "n", "o", "p", "a", "t", "h", "\n">>,
    <<"s", "c", "m", "u", "r", "l", " ", "g", "i", "t", ":", "f", "o", "o", "\n">>,
    <<"s", "c", "m", "u", "r", "l", " ", "g", "i", "t", ":", "/", "/", "h", "o", "s", "t", "/", "p", "a", "t", "h", "/", "F", "o", "o", "E", "x", "t", "e", "n", "s", "i", "o", "n", ".", "g", "i", "t", "\n">>,
    <<"s", "c", "m", "u", "r", "l", " ", " ", "H", "T", "T", "P", "S", ":", "/", "/", "h", "o", "s", "t", "/", "S", "l", "i", "c", "e", "r", "F", "o", "o", ".", "g", "i", "t", " ", "\n">>,
    <<"s", "c", "m", "u", "r", "l", "\n">>,
    <<"s", "c", "m", "u", "r", "l", " ", "\n">>,
    <<"#", " ", "s", "c", "m", " ", "l", "o", "c", "a", "l", "\n">>,
    <<"\n">> }

BatchLines == { <<"s", "c", "m", "u", "r", "l", "\n">> }

NoLine == <<>>

\* ------------------------------------------------------ outcome of a check
\* raise ExtensionCheckError(extension_name, check_name, details); body tells
\* whether the decorated function itself was entered.
ExtensionCheckError(extension_name, check_name, details, body) == [outcome |-> "ExtensionCheckError", extension_name |-> extension_name, check_name |-> check_name, details |-> details, body |-> body]

\* ExtensionCheckError.__str__
str_exc(exc) == exc.details

\* The decorated function ran to its end (or to a return) without raising.
Returned(extension_name) == [outcome |-> "return", extension_name |-> extension_name, check_name |-> "", details |-> <<>>, body |-> TRUE]

\* The decorated function raised an exception that is no ExtensionCheckError.
OtherError(kind, extension_name) == [outcome |-> kind, extension_name |-> extension_name, check_name |-> "", details |-> <<>>, body |-> TRUE]

\* No check was called on the current file yet.
NoResult == [check |-> "", outcome |-> "none", extension_name |-> 0, check_name |-> "", details |-> <<>>, body |-> FALSE]

\* The final line was not printed yet.
NoSummary == <<-1, -1>>

\* ------------------------------------------------------------------ guard
\* A guard that delegates without looking at the mapping.
require_metadata_key_unguarded(metadata_key, extension_name, metadata, fun) == fun

\* wrapped(*args) of require_metadata_key(metadata_key)(fun); fun is the
\* outcome of fun(*args), evaluated only when the key is present.
require_metadata_key(metadata_key, extension_name, metadata, fun) ==
    IF ~HasKey(metadata, metadata_key)
    THEN ExtensionCheckError(extension_name, "require_metadata_key", metadata_key \o <<" ", "k", "e", "y", " ", "i", "s", " ", "m", "i", "s", "s", "i", "n", "g">>, FALSE)
    ELSE fun

\* ----------------------------------------------------------------- checks
supported_schemes_with_ftp == << <<"g", "i", "t">>, <<"h", "t", "t", "p", "s">>, <<"s", "v", "n">>, <<"f", "t", "p">> >>

supported_schemes == << <<"g", "i", "t">>, <<"h", "t", "t", "p", "s">>, <<"s", "v", "n">> >>

\* The undecorated check_scmurl_syntax.
check_scmurl_syntax_fun(extension_name, metadata) ==
    IF ~HasKey(metadata, K_scmurl) THEN OtherError("KeyError", extension_name)
    ELSE LET scmurl == Get(metadata, K_scmurl) IN
    IF scmurl = None THEN OtherError("TypeError", extension_name)
    ELSE IF ~contains(scmurl, <<":", "/", "/">>)
    THEN ExtensionCheckError(extension_name, "check_scmurl_syntax", <<"s", "c", "m", "u", "r", "l", " ", "d", "o", " ", "n", "o", "t", " ", "m", "a", "t", "c", "h", " ", "s", "c", "h", "e", "m", "e", ":", "/", "/", "h", "o", "s", "t", "/", "p", "a", "t", "h">>, TRUE)
    ELSE LET scheme == urlsplit(scmurl).scheme IN
    IF scheme \notin Range(supported_schemes)
    THEN ExtensionCheckError(extension_name, "check_scmurl_syntax", <<"s", "c", "m", "u", "r", "l", " ", "s", "c", "h", "e", "m", "e", " ", "i", "s", " ", "'">> \o scheme \o <<"'", " ", "b", "u", "t", " ", "i", "t", " ", "s", "h", "o", "u", "l", "d", " ", "b", "y", " ", "a", "n", "y", " ", "o", "f", " ">> \o repr_list(supported_schemes), TRUE)
    ELSE Returned(extension_name)

check_scmurl_syntax(extension_name, metadata) ==
    require_metadata_key(K_scmurl, extension_name, metadata, check_scmurl_syntax_fun(extension_name, metadata))

\* The undecorated check_scm_notlocal.
check_scm_notlocal_fun(extension_name, metadata) ==
    IF ~HasKey(metadata, K_scm) THEN OtherError("KeyError", extension_name)
    ELSE IF Get(metadata, K_scm) = <<"l", "o", "c", "a", "l">>
    THEN ExtensionCheckError(extension_name, "check_scm_notlocal", <<"s", "c", "m", " ", "c", "a", "n", "n", "o", "t", " ", "b", "e", " ", "l", "o", "c", "a", "l">>, TRUE)
    ELSE Returned(extension_name)

check_scm_notlocal(extension_name, metadata) ==
    require_metadata_key(K_scm, extension_name, metadata, check_scm_notlocal_fun(extension_name, metadata))

repo_name_prefixes == << <<"S", "l", "i", "c", "e", "r", "-">>, <<"S", "l", "i", "c", "e", "r", "_">>, <<"S", "l", "i", "c", "e", "r", "E", "x", "t", "e", "n", "s", "i", "o", "n", "-">>, <<"S", "l", "i", "c", "e", "r", "E", "x", "t", "e", "n", "s", "i", "o", "n", "_">> >>

\* os.path.splitext(urlsplit(scmurl).path.split("/")[-1])[0]
repo_name_of(scmurl) == splitext_root(last_segment(urlsplit(scmurl).path))

\* textwrap.dedent of the formatted message
repo_name_message(repo_name) ==
    <<"\n", "e", "x", "t", "e", "n", "s", "i", "o", "n", " ", "r", "e", "p", "o", "s", "i", "t", "o", "r", "y", " ", "n", "a", "m", "e", " ", "i", "s", " ", "'">> \o repo_name \o <<"'", ".", " ", "P", "l", "e", "a", "s", "e", ",", " ", "c", "o", "n", "s", "i", "d", "e", "r", " ", "c", "h", "a", "n", "g", "i", "n", "g", " ", "i", "t", " ", "t", "o", " ", "'", "S", "l", "i", "c", "e", "r">> \o repo_name
    \o <<"'", " ", "o", "r", " ", "a", "n", "y", " ", "o", "f", "\n", "t", "h", "e", "s", "e", " ", "v", "a", "r", "i", "a", "t", "i", "o", "n", "s", " ">> \o repr_list([i \in 1..Len(repo_name_prefixes) |-> repo_name_prefixes[i] \o repo_name]) \o <<".", "\n">>

\* The undecorated check_git_repository_name.
check_git_repository_name_fun(extension_name, metadata) ==
    IF ~HasKey(metadata, K_scm) THEN OtherError("KeyError", extension_name)
    ELSE IF Get(metadata, K_scm) # <<"g", "i", "t">> THEN Returned(extension_name)
    ELSE IF ~HasKey(metadata, K_scmurl) THEN OtherError("KeyError", extension_name)
    ELSE LET scmurl == Get(metadata, K_scmurl) IN
    IF scmurl = None THEN OtherError("TypeError", extension_name)
    ELSE LET repo_name == repo_name_of(scmurl) IN
    IF ~startswith(repo_name, <<"S", "l", "i", "c", "e", "r">>)
    THEN ExtensionCheckError(extension_name, "check_git_repository_name", repo_name_message(repo_name), TRUE)
    ELSE Returned(extension_name)

check_git_repository_name(extension_name, metadata) ==
    require_metadata_key(K_scmurl, extension_name, metadata,
        require_metadata_key(K_scm, extension_name, metadata, check_git_repository_name_fun(extension_name, metadata)))

\* check(extension_name, metadata) for an entry of the list checks
Call(check, extension_name, metadata) ==
    CASE check = "check_git_repository_name" -> check_git_repository_name(extension_name, metadata)
      [] check = "check_scmurl_syntax" -> check_scmurl_syntax(extension_name, metadata)
      [] check = "check_scm_notlocal" -> check_scm_notlocal(extension_name, metadata)

\* The list checks that main builds from the command-line switch.
BuildChecks(flag) == (IF flag THEN <<"check_git_repository_name">> ELSE <<>>) \o <<"check_scmurl_syntax", "check_scm_notlocal">>

\* ----------------------------------------------------------------- parser
\* One iteration of the loop of parse_s4ext over a line of the file.
parse_line(ext_metadata, ln) ==
    IF strip(ln) = <<>> \/ startswith(ln, <<"#">>) THEN ext_metadata
    ELSE LET parts == split_space_1(ln)
             fields == [i \in 1..Len(parts) |-> strip(parts[i])]
         IN  Put(ext_metadata, fields[1], IF Len(fields) = 2 THEN fields[2] ELSE None)

\* ------------------------------------------------------------------ state
VARIABLES
    args_check_git_repository_name, \* the command-line switch
    checks,                 \* the list of checks main built
    nfiles,                 \* len(file_paths)
    fs_lines,               \* the lines the description files on disk are made of
    file_index,             \* position of the current file in file_paths, 0 before the first
    pc,                     \* where main is
    metadata,               \* ext_metadata while parsing, then metadata
    line,                   \* the line parse_s4ext read last
    line_no,                \* lines read from the current file
    check_index,            \* position in checks of the next check
    failures,               \* the list failures of the current file
    total_failure_count,
    last,                   \* outcome of the latest check call, with the check called
    invoked,                \* the checks called so far on the current file
    completed,              \* iterations of the loop over file_paths that reached their end
    io_error,               \* open or read of the current file raised an OSError
    header_lines,           \* "<name>.s4ext" lines printed
    detail_lines,           \* indented failure lines printed
    summary,                \* the (files, errors) of the final line, NoSummary before it is printed
    exit_status             \* status of the process, -1 while it runs

vars == <<args_check_git_repository_name, checks, nfiles, fs_lines, file_index, pc, metadata, line, line_no, check_index, failures, total_failure_count, last, invoked, completed, io_error, header_lines, detail_lines, summary, exit_status>>

InitWith(flags, counts, lines) ==
    /\ args_check_git_repository_name \in flags
    /\ checks = BuildChecks(args_check_git_repository_name)
    /\ nfiles \in counts
    /\ fs_lines = lines
    /\ file_index = 0
    /\ pc = "next_file"
    /\ metadata = {}
    /\ line = NoLine
    /\ line_no = 0
    /\ check_index = 1
    /\ failures = <<>>
    /\ total_failure_count = 0
    /\ last = NoResult
    /\ invoked = <<>>
    /\ completed = 0
    /\ io_error = FALSE
    /\ header_lines = 0
    /\ detail_lines = 0
    /\ summary = NoSummary
    /\ exit_status = -1

Init == InitWith(BOOLEAN, 0..MaxFiles, Lines)

InitBatch == InitWith(BOOLEAN, {BatchFiles}, BatchLines)

\* ---------------------------------------------------------------- actions
\* Loop head with a file left: extension_name, failures = [] and a successful open.
OpenFile ==
    /\ pc = "next_file" /\ file_index < nfiles
    /\ file_index' = file_index + 1
    /\ failures' = <<>>
    /\ metadata' = {}
    /\ line' = NoLine /\ line_no' = 0
    /\ last' = NoResult /\ invoked' = <<>>
    /\ pc' = "reading"
    /\ UNCHANGED <<args_check_git_repository_name, checks, nfiles, fs_lines, check_index, total_failure_count, completed, io_error, header_lines, detail_lines, summary, exit_status>>

\* The OSError is swallowed and the file is skipped.
Propagate_swallowed ==
    /\ io_error' = TRUE
    /\ pc' = "report"
    /\ exit_status' = exit_status

\* The OSError leaves parse_s4ext and main uncaught.
Propagate ==
    /\ io_error' = TRUE
    /\ pc' = "OSError"
    /\ exit_status' = UncaughtExceptionStatus

\* Loop head with a file left, and open(ext_file_path) raises.
OpenFails ==
    /\ pc = "next_file" /\ file_index < nfiles
    /\ file_index' = file_index + 1
    /\ failures' = <<>>
    /\ last' = NoResult /\ invoked' = <<>>
    /\ Propagate
    /\ UNCHANGED <<args_check_git_repository_name, checks, nfiles, fs_lines, metadata, line, line_no, check_index, total_failure_count, completed, header_lines, detail_lines, summary>>

\* for line in ext_file: one more line, and the body of the loop on it.
ReadLine ==
    /\ pc = "reading" /\ line_no < MaxLines
    /\ \E ln \in fs_lines :
        /\ line' = ln
        /\ metadata' = parse_line(metadata, ln)
    /\ line_no' = line_no + 1
    /\ UNCHANGED <<args_check_git_repository_name, checks, nfiles, fs_lines, file_index, pc, check_index, failures, total_failure_count, last, invoked, completed, io_error, header_lines, detail_lines, summary, exit_status>>

\* for line in ext_file: the read raises.
ReadFails ==
    /\ pc = "reading"
    /\ Propagate
    /\ UNCHANGED <<args_check_git_repository_name, checks, nfiles, fs_lines, file_index, metadata, line, line_no, check_index, failures, total_failure_count, last, invoked, completed, header_lines, detail_lines, summary>>

\* End of file: parse_s4ext returns ext_metadata and the loop over checks starts.
EndOfFile ==
    /\ pc = "reading"
    /\ line' = NoLine
    /\ check_index' = 1
    /\ pc' = "checking"
    /\ UNCHANGED <<args_check_git_repository_name, checks, nfiles, fs_lines, file_index, metadata, line_no, failures, total_failure_count, last, invoked, completed, io_error, header_lines, detail_lines, summary, exit_status>>

\* One iteration of "for check in checks": the call, and the except clause.
RunCheck ==
    /\ pc = "checking" /\ check_index <= Len(checks)
    /\ LET check == checks[check_index]
           result == Call(check, file_index, metadata)
       IN  /\ invoked' = Append(invoked, check)
           /\ last' = [check |-> check] @@ result
           /\ IF result.outcome = "return"
              THEN /\ failures' = failures
                   /\ check_index' = check_index + 1
                   /\ pc' = IF check_index = Len(checks) THEN "report" ELSE "checking"
                   /\ exit_status' = exit_status
              ELSE IF result.outcome = "ExtensionCheckError"
              THEN /\ failures' = Append(failures, str_exc(result))
                   /\ check_index' = check_index + 1
                   /\ pc' = IF check_index = Len(checks) THEN "report" ELSE "checking"
                   /\ exit_status' = exit_status
              ELSE /\ failures' = failures
                   /\ check_index' = check_index
                   /\ pc' = result.outcome
                   /\ exit_status' = UncaughtExceptionStatus
    /\ UNCHANGED <<args_check_git_repository_name, checks, nfiles, fs_lines, file_index, metadata, line, line_no, total_failure_count, completed, io_error, header_lines, detail_lines, summary>>

\* if failures: count them and print the file name and the distinct failures.
Report ==
    /\ pc = "report"
    /\ IF failures # <<>>
       THEN /\ total_failure_count' = total_failure_count + Len(failures)
            /\ header_lines' = header_lines + 1
            /\ detail_lines' = detail_lines + Cardinality(Range(failures))
       ELSE UNCHANGED <<total_failure_count, header_lines, detail_lines>>
    /\ completed' = completed + 1
    /\ pc' = "next_file"
    /\ UNCHANGED <<args_check_git_repository_name, checks, nfiles, fs_lines, file_index, metadata, line, line_no, check_index, failures, last, invoked, io_error, summary, exit_status>>

\* After the last file: the summary line and sys.exit(total_failure_count).
Exit ==
    /\ pc = "next_file" /\ file_index = nfiles
    /\ summary' = <<nfiles, total_failure_count>>
    /\ exit_status' = total_failure_count % ExitStatusModulus
    /\ pc' = "exited"
    /\ UNCHANGED <<args_check_git_repository_name, checks, nfiles, fs_lines, file_index, metadata, line, line_no, check_index, failures, total_failure_count, last, invoked, completed, io_error, header_lines, detail_lines>>

Next == OpenFile \/ OpenFails \/ ReadLine \/ ReadFails \/ EndOfFile \/ RunCheck \/ Report \/ Exit

Spec == Init /\ [][Next]_vars

SpecBatch == InitBatch /\ [][Next]_vars

\* ----------------------------------------------------------- properties
InSeq(x, s) == \E i \in 1..Len(s) : s[i] = x

\* The main loop is past the checks of a file whose metadata was parsed.
ChecksOver == pc \in {"report", "TypeError", "KeyError"}

\* The keys the decorators of a check require.
RequiredKeys(check) ==
    CASE check = "check_git_repository_name" -> {K_scmurl, K_scm}
      [] check = "check_scmurl_syntax" -> {K_scmurl}
      [] check = "check_scm_notlocal" -> {K_scm}
      [] OTHER -> {}

MissingKeys(check, md) == {k \in RequiredKeys(check) : ~HasKey(md, k)}

\* C1: after a full run the total failure count is the sum over the files of
\* the number of distinct failure texts of the file, which is the number of
\* indented failure lines printed; a file that passes contributes 0.
C1_TotalIsDistinctTexts == pc = "exited" => total_failure_count = detail_lines

\* C2: on every parsed file the runner calls every check of the list exactly
\* once and in list order whatever the earlier checks did, and a check-level
\* failure is recorded in the failure list.
C2_EveryCheckCalledInOrder ==
    /\ pc = "checking" => invoked = SubSeq(checks, 1, check_index - 1)
    /\ ChecksOver => invoked = checks
    /\ last.outcome = "ExtensionCheckError" => failures # <<>> /\ failures[Len(failures)] = last.details

\* C3: a call of a guarded check on a mapping that lacks one of its required
\* keys raises one failure, a missing-key failure that names an absent key,
\* and does not enter the body of the check; a missing-key failure never
\* comes with an entered body.
C3_MissingKeyOnly ==
    /\ (last.check # "" /\ MissingKeys(last.check, metadata) # {}) =>
        /\ last.outcome = "ExtensionCheckError"
        /\ last.check_name = "require_metadata_key"
        /\ \E k \in MissingKeys(last.check, metadata) : last.details = k \o <<" ", "k", "e", "y", " ", "i", "s", " ", "m", "i", "s", "s", "i", "n", "g">>
        /\ ~last.body
        /\ failures # <<>> /\ failures[Len(failures)] = last.details
    /\ last.check_name = "require_metadata_key" => ~last.body /\ MissingKeys(last.check, metadata) # {}
    /\ Len(failures) <= Len(invoked)

\* The second of the stacked guards of check_git_repository_name reported the missing scm key.
C3_Witness ==
    /\ last.check = "check_git_repository_name"
    /\ HasKey(metadata, K_scmurl) /\ ~HasKey(metadata, K_scm)
    /\ last.details = <<"s", "c", "m", " ", "k", "e", "y", " ", "i", "s", " ", "m", "i", "s", "s", "i", "n", "g">>
    /\ failures = << <<"s", "c", "m", " ", "k", "e", "y", " ", "i", "s", " ", "m", "i", "s", "s", "i", "n", "g">> >>

\* C4: when a run completes the exit status is the total failure count: zero
\* exactly when no file had a failure, and the count itself otherwise.
C4_StatusIsTotal == pc = "exited" => exit_status = total_failure_count /\ (exit_status = 0 <=> total_failure_count = 0)

\* C5: when reading the k-th file raises an I/O error the error ends the run:
\* no check was called on that file, the error is in no failure list and in no
\* count, no tally was printed, the k-1 files before it went through the whole
\* loop body, and no further step is taken.
C5_IOErrorEndsRun ==
    /\ [](io_error =>
            /\ pc = "OSError"
            /\ invoked = <<>> /\ failures = <<>> /\ last = NoResult
            /\ summary = NoSummary
            /\ completed = file_index - 1)
    /\ [][~io_error /\ io_error' => total_failure_count' = total_failure_count /\ detail_lines' = detail_lines /\ header_lines' = header_lines]_vars
    /\ [][~io_error]_vars

\* The second or a later file could not be read after an earlier file was reported with failures.
C5_Witness == io_error /\ pc = "OSError" /\ file_index >= 2 /\ completed = file_index - 1 /\ total_failure_count > 0 /\ header_lines > 0

\* The key at the start of a line: its characters up to the first whitespace.
LeadingKey(ln) == LET ws == {i \in 1..Len(ln) : ln[i] \in Whitespace} IN IF ws = {} THEN ln ELSE SubSeq(ln, 1, SetMin(ws) - 1)

\* A line that is no blank and no comment and holds a key and nothing but whitespace after it.
KeyOnly(ln) == strip(ln) # <<>> /\ ~startswith(ln, <<"#">>) /\ LeadingKey(ln) # <<>> /\ strip(From(ln, Len(LeadingKey(ln)) + 1)) = <<>>

\* C6: a line made of a key and no value text maps the key to None, and no
\* key is mapped to the empty string.
C6_BareKeyIsNone ==
    /\ (pc = "reading" /\ line # NoLine /\ KeyOnly(line)) => HasKey(metadata, LeadingKey(line)) /\ Get(metadata, LeadingKey(line)) = None
    /\ \A e \in metadata : e.value # <<>>

C8_GitRepositoryName ==
    (last.check = "check_git_repository_name" /\ HasKey(metadata, K_scm) /\ HasKey(metadata, K_scmurl)) =>
        LET scm == Get(metadata, K_scm)
            scmurl == Get(metadata, K_scmurl)
        IN  /\ last.outcome \in {"return", "ExtensionCheckError"}
            /\ last.outcome = "ExtensionCheckError" <=> (scm = <<"g", "i", "t">> /\ ~startswith(repo_name_of(scmurl), <<"S", "l", "i", "c", "e", "r">>))
            /\ scm # <<"g", "i", "t">> => last.outcome = "return" /\ last.body

\* C9: scmurl-syntax and scm-not-local are called on every parsed file,
\* git-repository-name is called on a file exactly when the switch is on, and
\* with the switch off it is never called, so none of its failures is counted.
C9_ConfiguredChecks ==
    /\ ChecksOver =>
        /\ InSeq("check_scmurl_syntax", invoked)
        /\ InSeq("check_scm_notlocal", invoked)
        /\ InSeq("check_git_repository_name", invoked) <=> args_check_git_repository_name
    /\ ~args_check_git_repository_name => ~InSeq("check_git_repository_name", invoked) /\ last.check # "check_git_repository_name"

\* C10: every call of a check returns or raises a check-level failure; no
\* other error leaves a check and ends the run.
C10_OnlyCheckLevelFailures == pc \notin {"TypeError", "KeyError"} /\ last.outcome \in {"none", "return", "ExtensionCheckError"}
====
